---- MODULE Spec2Model ----
(***************************************************************************)
(* A model of dotfiles.py: the override file-name parser, the condition    *)
(* predicates, the override resolver (get_override_files) and the symlink  *)
(* application (cli_apply, symlink_file, symlink_bin_and_self).            *)
(*                                                                         *)
(* Strings are sequences of one-character strings, so the regular          *)
(* expressions of the parser are computed character by character.  A path  *)
(* is the sequence of its components below DOTFILES or below HOME; where   *)
(* the root matters it is a record [root, parts].                          *)
(***************************************************************************)
EXTENDS Integers, Sequences, FiniteSets, TLC

VARIABLES
    env,             \* platform.uname(): [node, system, release]
    tree,            \* DOTFILES.glob("**/*") in enumeration order: [path, kind]
    action,          \* args.action of apply
    dry,             \* args.dry of apply
    caller,          \* "apply" (cli_apply) or "direct" (get_override_files alone)
    fs,              \* the entries below HOME: path parts -> [kind, to]
    pc,              \* position of the process
    wi,              \* get_override_files: index of the first loop in the walk
    file_overrides,  \* get_override_files: the ordered dict of groups
    gi,              \* get_override_files: index of the group being resolved
    ci,              \* get_override_files: index of the candidate being scanned
    best,            \* get_override_files: best pick of the current group
    best_overrides,  \* get_override_files: Override of the best pick
    symlinks,        \* get_override_files: the list being returned
    files,           \* cli_apply: files
    override_files,  \* cli_apply: override_files
    li,              \* cli_apply / symlink_bin_and_self: loop index
    run,             \* number of the apply run (1 = first invocation)
    fsStart,         \* history: fs when the current run started
    fsCall,          \* history: fs at the start of the last iteration that called symlink_file
    lastCall,        \* history: the arguments of the last call of symlink_file
    name,            \* parse_override_name alone: the argument
    parsed           \* parse_override_name alone: the result

vars == <<env, tree, action, dry, caller, fs, pc, wi, file_overrides, gi, ci,
          best, best_overrides, symlinks, files, override_files, li, run,
          fsStart, fsCall, lastCall, name, parsed>>

(***************************************************************************)
(* Bounds of the model.                                                    *)
(***************************************************************************)
MaxCompLen == 2
MaxOverrides == 3
MaxTree == 2
MaxRuns == 2

(***************************************************************************)
(* Characters and strings.                                                 *)
(***************************************************************************)
UpperLetters == <<"A","B","C","D","E","F","G","H","I","J","K","L","M",
                  "N","O","P","Q","R","S","T","U","V","W","X","Y","Z">>
LowerLetters == <<"a","b","c","d","e","f","g","h","i","j","k","l","m",
                  "n","o","p","q","r","s","t","u","v","w","x","y","z">>

\* the character class [a-zA-Z]
IsLetter(c) == \E i \in 1..26 : UpperLetters[i] = c \/ LowerLetters[i] = c

\* str.lower() on one character, and on a string
LowerChar(c) ==
    IF \E i \in 1..26 : UpperLetters[i] = c
    THEN LowerLetters[CHOOSE i \in 1..26 : UpperLetters[i] = c]
    ELSE c
Lower(s) == [i \in 1..Len(s) |-> LowerChar(s[i])]

\* [a-zA-Z]+ at the start of s: the length of the longest run of letters
LetterRun(s) ==
    IF \A i \in 1..Len(s) : IsLetter(s[i]) THEN Len(s)
    ELSE (CHOOSE i \in 1..Len(s) :
             ~IsLetter(s[i]) /\ \A j \in 1..(i-1) : IsLetter(s[j])) - 1

\* .+ at the start of s: the length of the longest run without a newline,
\* which the atom "." does not match
DotRun(s) ==
    IF \A i \in 1..Len(s) : s[i] # "\n" THEN Len(s)
    ELSE (CHOOSE i \in 1..Len(s) :
             s[i] = "\n" /\ \A j \in 1..(i-1) : s[j] # "\n") - 1

\* sub in s, for strings
Contains(s, sub) ==
    \E i \in 0..(Len(s) - Len(sub)) :
        \A j \in 1..Len(sub) : s[i + j] = sub[j]

Drop(s, n) == SubSeq(s, n + 1, Len(s))
Last(s) == s[Len(s)]
Front(s) == SubSeq(s, 1, Len(s) - 1)

\* Python's None where a string is expected (no string equals it)
None == <<"<None>">>

S_default == <<"d","e","f","a","u","l","t">>
S_os == <<"o","s">>
S_host == <<"h","o","s","t">>
S_hostname == <<"h","o","s","t","n","a","m","e">>
S_WSL == <<"W","S","L">>
S_Linux == <<"L","i","n","u","x">>
S_Darwin == <<"D","a","r","w","i","n">>
S_myhost == <<"m","y","h","o","s","t">>
S_other == <<"o","t","h","e","r">>
S_bogus == <<"b","o","g","u","s">>
S_plainname == <<"p","l","a","i","n">>
S_rc == <<"r","c">>
S_sh == <<"s","h">>

(***************************************************************************)
(* Condition, Override and the name parser.                                *)
(***************************************************************************)
\* class Condition(enum.IntEnum): a member is its integer value, so that
\* hostname is an alias of host
Condition == [host |-> 2, hostname |-> 2, os |-> 1, default |-> 0]

VALID_CONDITIONS == <<S_os, S_host, S_hostname>>

\* Condition[cond] for a cond that is in VALID_CONDITIONS
ConditionByName(cond) ==
    IF cond = S_os THEN Condition.os
    ELSE IF cond = S_host THEN Condition.host
    ELSE Condition.hostname

\* class Override(typing.NamedTuple), with the outcome of the call beside it
Override(cond, comp, n) == [status |-> "ok", cond |-> cond, comp |-> comp, name |-> n]
ParseExit(why) == [status |-> "exit", cond |-> -1, comp |-> None, name |-> why]

\* DEFAULT_REGEX.match(s): default@(?P<name>.+) with re.I, anchored at the start.
\* The result is [matched, name].
DEFAULT_REGEX(s) ==
    LET rest == Drop(s, 8)
        n == SubSeq(rest, 1, DotRun(rest))
    IN  IF /\ Len(s) >= 8
           /\ Lower(SubSeq(s, 1, 7)) = S_default
           /\ s[8] = "@"
           /\ Len(n) >= 1
        THEN [matched |-> TRUE, name |-> n]
        ELSE [matched |-> FALSE, name |-> None]

\* CONDITIONAL_REGEX.match(s): ([a-zA-Z]+)\.([a-zA-Z]+)@(.+), anchored at the
\* start.  A letter run is followed by a character that is no letter, so only
\* the longest run can match.  The result is [matched, cond, comp, name].
CONDITIONAL_REGEX(s) ==
    LET lc == LetterRun(s)
        afterCond == Drop(s, lc + 1)
        lp == LetterRun(afterCond)
        rest == Drop(afterCond, lp + 1)
        n == SubSeq(rest, 1, DotRun(rest))
    IN  IF /\ lc >= 1
           /\ Len(s) > lc
           /\ s[lc + 1] = "."
           /\ lp >= 1
           /\ Len(afterCond) > lp
           /\ afterCond[lp + 1] = "@"
           /\ Len(n) >= 1
        THEN [matched |-> TRUE, cond |-> SubSeq(s, 1, lc),
              comp |-> SubSeq(afterCond, 1, lp), name |-> n]
        ELSE [matched |-> FALSE, cond |-> None, comp |-> None, name |-> None]

parse_override_name(s) ==
    LET d == DEFAULT_REGEX(s)
        m == CONDITIONAL_REGEX(s)
    IN  IF d.matched
        THEN Override(Condition.default, None, d.name)
        ELSE IF m.matched
        THEN IF \A i \in 1..Len(VALID_CONDITIONS) : VALID_CONDITIONS[i] # Lower(m.cond)
             THEN ParseExit(<<"invalid condition">>)
             ELSE Override(ConditionByName(Lower(m.cond)), m.comp, m.name)
        ELSE ParseExit(<<"could not find valid condition">>)

(***************************************************************************)
(* The condition predicates.  e is the result of platform.uname().         *)
(***************************************************************************)
R_wsl == <<"5","-","W","S","L","2">>
R_plain == <<"6",".","1">>

hostname_condition(comp, e) == comp = e.node

os_condition(comp, e) ==
    IF Contains(e.release, S_WSL) /\ comp = S_WSL
    THEN TRUE
    ELSE comp = e.system

\* the dict: its keys are Condition members, that is, their values
CONDITIONS_CALLABLE_MAP ==
    [c \in {Condition.hostname, Condition.host, Condition.os} |->
        IF c = Condition.os THEN "os_condition" ELSE "hostname_condition"]

\* CONDITIONS_CALLABLE_MAP[cond](comp), for a cond that is a key of the dict
CallCondition(cond, comp, e) ==
    IF CONDITIONS_CALLABLE_MAP[cond] = "os_condition"
    THEN os_condition(comp, e)
    ELSE hostname_condition(comp, e)

(***************************************************************************)
(* Paths.  The parts of a path are strings; the name of a path is its last *)
(* part and its parent the parts before it.                                *)
(***************************************************************************)
N_overrides == <<"o","v","e","r","r","i","d","e","s">>
N_bin == <<"b","i","n">>
N_git == <<".","g","i","t">>
N_dotfiles_py == <<"d","o","t","f","i","l","e","s",".","p","y">>
N_pycache == <<"_","_","p","y","c","a","c","h","e","_","_">>
N_dot_gitignore == <<".","g","i","t","i","g","n","o","r","e">>
N_gitignore == <<"g","i","t","i","g","n","o","r","e">>
N_README == <<"R","E","A","D","M","E",".","m","d">>
N_local == <<".","l","o","c","a","l">>
N_dotfiles == <<"d","o","t","f","i","l","e","s">>

IGNORED_NAMES == <<N_git, N_overrides, N_bin, N_dotfiles_py, N_pycache,
                   N_dot_gitignore, N_gitignore, N_README>>

\* [DOTFILES / Path(p) for p in IGNORED_NAMES], as parts below DOTFILES
IGNORED_PATHS == {<<IGNORED_NAMES[i]>> : i \in 1..Len(IGNORED_NAMES)}

\* no call of symlink_file yet
NoCall == [original |-> [root |-> "-", parts |-> << >>], to |-> << >>]

\* best = None, and best_overrides = None
NonePath == <<None>>
NoneOverride == [status |-> "None", cond |-> -1, comp |-> None, name |-> None]

(***************************************************************************)
(* get_override_files.                                                     *)
(***************************************************************************)
\* DOTFILES.glob("overrides/**/*"): the entries of the walk below overrides/
OverridesGlob(t) ==
    SelectSeq(t, LAMBDA x : Len(x.path) >= 2 /\ x.path[1] = N_overrides)

\* lines 213-217: file_overrides after one more parsed path
AddToGroup(fo, path, ov) ==
    LET key == Append(Front(path), ov.name)
        item == [path |-> path, ov |-> ov]
    IN  IF \E i \in 1..Len(fo) : fo[i].key = key
        THEN [i \in 1..Len(fo) |->
                 IF fo[i].key = key
                 THEN [key |-> key, cands |-> Append(fo[i].cands, item)]
                 ELSE fo[i]]
        ELSE Append(fo, [key |-> key, cands |-> <<item>>])

\* ScanStep with >= for > at line 232: a later candidate of equal rank
\* replaces the best pick
ScanStep_ge(b, bo, cand, e) ==
    IF cand.ov.cond = Condition.default /\ b = NonePath
    THEN [best |-> cand.path, best_overrides |-> cand.ov, raised |-> "no"]
    ELSE IF cand.ov.cond \notin DOMAIN CONDITIONS_CALLABLE_MAP
    THEN [best |-> b, best_overrides |-> bo, raised |-> "KeyError"]
    ELSE IF /\ CallCondition(cand.ov.cond, cand.ov.comp, e)
            /\ (bo = NoneOverride \/ cand.ov.cond >= bo.cond)
    THEN [best |-> cand.path, best_overrides |-> cand.ov, raised |-> "no"]
    ELSE [best |-> b, best_overrides |-> bo, raised |-> "no"]

\* ScanStep without the test of condition at line 231: a candidate of higher
\* rank replaces the best pick whether its predicate holds or not
ScanStep_nocond(b, bo, cand, e) ==
    IF cand.ov.cond = Condition.default /\ b = NonePath
    THEN [best |-> cand.path, best_overrides |-> cand.ov, raised |-> "no"]
    ELSE IF cand.ov.cond \notin DOMAIN CONDITIONS_CALLABLE_MAP
    THEN [best |-> b, best_overrides |-> bo, raised |-> "KeyError"]
    ELSE IF bo = NoneOverride \/ cand.ov.cond > bo.cond
    THEN [best |-> cand.path, best_overrides |-> cand.ov, raised |-> "no"]
    ELSE [best |-> b, best_overrides |-> bo, raised |-> "no"]

\* lines 224-235: one iteration of the scan of a group, from the best pick
\* (b, bo) and the candidate cand.  raised is the uncaught exception, if any.
ScanStep(b, bo, cand, e) ==
    IF cand.ov.cond = Condition.default /\ b = NonePath
    THEN [best |-> cand.path, best_overrides |-> cand.ov, raised |-> "no"]
    ELSE IF cand.ov.cond \notin DOMAIN CONDITIONS_CALLABLE_MAP
    THEN [best |-> b, best_overrides |-> bo, raised |-> "KeyError"]
    ELSE IF /\ CallCondition(cand.ov.cond, cand.ov.comp, e)
            /\ (bo = NoneOverride \/ cand.ov.cond > bo.cond)
    THEN [best |-> cand.path, best_overrides |-> cand.ov, raised |-> "no"]
    ELSE [best |-> b, best_overrides |-> bo, raised |-> "no"]

\* GroupPath where a name that does not parse is skipped like a directory
\* instead of ending the process
GroupPath_skip ==
    /\ pc = "group"
    /\ wi <= Len(OverridesGlob(tree))
    /\ LET x == OverridesGlob(tree)[wi]
           ov == parse_override_name(Last(x.path))
       IN  IF x.kind = "dir" \/ ov.status = "exit"
           THEN /\ wi' = wi + 1
                /\ UNCHANGED <<pc, file_overrides>>
           ELSE /\ file_overrides' = AddToGroup(file_overrides, x.path, ov)
                /\ wi' = wi + 1
                /\ UNCHANGED pc
    /\ UNCHANGED <<env, tree, action, dry, caller, fs, gi, ci, best,
                   best_overrides, symlinks, files, override_files, li, run,
                   fsStart, fsCall, lastCall, name, parsed>>

\* lines 209-217: one iteration of the first loop
GroupPath ==
    /\ pc = "group"
    /\ wi <= Len(OverridesGlob(tree))
    /\ LET x == OverridesGlob(tree)[wi]
           ov == parse_override_name(Last(x.path))
       IN  IF x.kind = "dir"
           THEN /\ wi' = wi + 1
                /\ UNCHANGED <<pc, file_overrides>>
           ELSE IF ov.status = "exit"
           THEN /\ pc' = "exit_parse"
                /\ UNCHANGED <<wi, file_overrides>>
           ELSE /\ file_overrides' = AddToGroup(file_overrides, x.path, ov)
                /\ wi' = wi + 1
                /\ UNCHANGED pc
    /\ UNCHANGED <<env, tree, action, dry, caller, fs, gi, ci, best,
                   best_overrides, symlinks, files, override_files, li, run,
                   fsStart, fsCall, lastCall, name, parsed>>

\* lines 219-222: the first loop is over; the second begins
StartResolve ==
    /\ pc = "group"
    /\ wi > Len(OverridesGlob(tree))
    /\ pc' = "scan"
    /\ symlinks' = << >>
    /\ gi' = 1
    /\ ci' = 1
    /\ best' = NonePath
    /\ best_overrides' = NoneOverride
    /\ UNCHANGED <<env, tree, action, dry, caller, fs, wi, file_overrides,
                   files, override_files, li, run, fsStart, fsCall, lastCall, name, parsed>>

\* lines 223-235: one iteration of the scan of the current group
ScanCandidate ==
    /\ pc = "scan"
    /\ gi <= Len(file_overrides)
    /\ ci <= Len(file_overrides[gi].cands)
    /\ LET r == ScanStep(best, best_overrides, file_overrides[gi].cands[ci], env)
       IN  /\ best' = r.best
           /\ best_overrides' = r.best_overrides
           /\ IF r.raised = "no"
              THEN ci' = ci + 1 /\ UNCHANGED pc
              ELSE pc' = r.raised /\ UNCHANGED ci
    /\ UNCHANGED <<env, tree, action, dry, caller, fs, wi, file_overrides, gi,
                   symlinks, files, override_files, li, run, fsStart, fsCall,
                   lastCall, name, parsed>>

\* line 236, then lines 220-222 for the next group
AppendBest ==
    /\ pc = "scan"
    /\ gi <= Len(file_overrides)
    /\ ci > Len(file_overrides[gi].cands)
    /\ symlinks' = Append(symlinks, best)
    /\ gi' = gi + 1
    /\ ci' = 1
    /\ best' = NonePath
    /\ best_overrides' = NoneOverride
    /\ UNCHANGED <<env, tree, action, dry, caller, fs, pc, wi, file_overrides,
                   files, override_files, li, run, fsStart, fsCall, lastCall, name, parsed>>

\* line 238: return symlinks, to cli_apply (line 292 or 294) or to a caller
\* that only resolves
ReturnOverrides ==
    /\ pc = "scan"
    /\ gi > Len(file_overrides)
    /\ override_files' = symlinks
    /\ pc' = IF caller = "apply" THEN "link_regular" ELSE "returned"
    /\ li' = 1
    /\ UNCHANGED <<env, tree, action, dry, caller, fs, wi, file_overrides, gi,
                   ci, best, best_overrides, symlinks, files, run, fsStart,
                   fsCall, lastCall, name, parsed>>

(***************************************************************************)
(* The file system below HOME and symlink_file.  fs maps the parts of a    *)
(* path below HOME to [kind, to]: a regular file, a directory, or a        *)
(* symlink to the path to.                                                 *)
(***************************************************************************)
Dot(parts) == [root |-> "DOTFILES", parts |-> parts]
Home(parts) == [root |-> "HOME", parts |-> parts]
Ext(parts) == [root |-> "EXT", parts |-> parts]
NoTarget == [root |-> "-", parts |-> << >>]

FileEntry == [kind |-> "file", to |-> NoTarget]
DirEntry == [kind |-> "dir", to |-> NoTarget]
LinkEntry(p) == [kind |-> "link", to |-> p]

\* HOME / path.relative_to(DOTFILES), for a path below DOTFILES
get_relative_to_home(path) == Home(path.parts)

\* HOME / path.relative_to(DOTFILES / "overrides"), for a path below
\* DOTFILES/overrides
get_relative_overrides_to_home(path) == Home(Tail(path.parts))

\* Path.resolve() of a path the walk t knows: an entry of DOTFILES that is
\* itself a symlink resolves to the file it points to, outside the walk
ResolveSource(t, p) ==
    IF p.root = "DOTFILES" /\ \E i \in 1..Len(t) : t[i].path = p.parts /\ t[i].kind = "link"
    THEN Ext(p.parts)
    ELSE p

\* to.resolve() for the path to below HOME
Resolve(f, t, to) ==
    IF to \in DOMAIN f /\ f[to].kind = "link"
    THEN ResolveSource(t, f[to].to)
    ELSE Home(to)

\* to.exists(follow_symlinks=False)
Exists(f, to) == to \in DOMAIN f

\* to.parent.exists(); HOME itself exists
ParentExists(f, to) == Len(to) = 1 \/ Front(to) \in DOMAIN f

\* an ancestor of to below HOME exists and is no directory
BlockedParent(f, to) ==
    \E k \in 1..(Len(to) - 1) :
        SubSeq(to, 1, k) \in DOMAIN f /\ f[SubSeq(to, 1, k)].kind # "dir"

\* Path.mkdir(parents=True) of the directory d, none of whose ancestors is blocked
Mkdir(f, d) ==
    LET missing == {SubSeq(d, 1, k) : k \in 1..Len(d)} \ DOMAIN f
    IN  [p \in DOMAIN f \cup missing |-> IF p \in DOMAIN f THEN f[p] ELSE DirEntry]

\* symlink_file where the conflict is logged and the function returns
\* instead of exiting at line 249
symlink_file_noexit(f, t, original, to) ==
    IF Exists(f, to) /\ Resolve(f, t, to) # original
    THEN [fs |-> f, outcome |-> "skipped"]
    ELSE IF ~Exists(f, to)
    THEN IF BlockedParent(f, to)
         THEN [fs |-> f, outcome |-> "NotADirectoryError"]
         ELSE LET f1 == IF ~ParentExists(f, to) THEN Mkdir(f, Front(to)) ELSE f
              IN  [fs |-> [p \in DOMAIN f1 \cup {to} |->
                              IF p = to THEN LinkEntry(original) ELSE f1[p]],
                   outcome |-> "linked"]
    ELSE [fs |-> f, outcome |-> "skipped"]

\* lines 241-264: symlink_file(original, to) on the file system f; the result
\* is the file system after the call and how the call ended
symlink_file(f, t, original, to) ==
    IF Exists(f, to) /\ Resolve(f, t, to) # original
    THEN [fs |-> f, outcome |-> "exit_conflict"]
    ELSE IF ~Exists(f, to)
    THEN IF BlockedParent(f, to)
         THEN [fs |-> f, outcome |-> "NotADirectoryError"]
         ELSE LET f1 == IF ~ParentExists(f, to) THEN Mkdir(f, Front(to)) ELSE f
              IN  [fs |-> [p \in DOMAIN f1 \cup {to} |->
                              IF p = to THEN LinkEntry(original) ELSE f1[p]],
                   outcome |-> "linked"]
    ELSE [fs |-> f, outcome |-> "skipped"]

\* where the process is after a call of symlink_file made at position here
AfterCall(outcome, here) ==
    IF outcome \in {"linked", "skipped"} THEN here ELSE outcome

(***************************************************************************)
(* get_symlink_files and cli_apply.                                        *)
(***************************************************************************)
\* lines 185-194: the paths of the walk that are no directory, not ignored
\* and below no ignored directory
get_symlink_files(t) ==
    LET kept == SelectSeq(t, LAMBDA x :
                    ~(\/ x.kind = "dir"
                      \/ x.path \in IGNORED_PATHS
                      \/ \E k \in 1..(Len(x.path) - 1) :
                            SubSeq(x.path, 1, k) \in IGNORED_PATHS))
    IN  [i \in 1..Len(kept) |-> kept[i].path]

\* (DOTFILES / "bin").iterdir(): the entries directly in bin/
BinEntries(t) ==
    SelectSeq(t, LAMBDA x : Len(x.path) = 2 /\ x.path[1] = N_bin)
BinExists(t) == \E i \in 1..Len(t) : t[i].path = <<N_bin>> /\ t[i].kind = "dir"

\* lines 286-296
StartApply ==
    /\ pc = "apply"
    /\ files' = IF action \in {"all", "regular"} THEN get_symlink_files(tree) ELSE << >>
    /\ IF action \in {"all", "overrides"}
       THEN pc' = "group" /\ UNCHANGED override_files
       ELSE pc' = "link_regular" /\ override_files' = << >>
    /\ li' = 1
    /\ UNCHANGED <<env, tree, action, dry, caller, fs, wi, file_overrides, gi,
                   ci, best, best_overrides, symlinks, run, fsStart, fsCall,
                   lastCall, name, parsed>>

\* lines 298-308: one iteration of the loop over files
LinkRegular ==
    /\ pc = "link_regular"
    /\ li <= Len(files)
    /\ LET file == files[li]
           real_path == get_relative_to_home(Dot(file)).parts
           r == symlink_file(fs, tree, Dot(file), real_path)
       IN  IF ~dry
           THEN /\ fs' = r.fs
                /\ pc' = AfterCall(r.outcome, "link_regular")
                /\ fsCall' = fs
                /\ lastCall' = [original |-> Dot(file), to |-> real_path]
           ELSE UNCHANGED <<fs, pc, fsCall, lastCall>>
    /\ li' = li + 1
    /\ UNCHANGED <<env, tree, action, dry, caller, wi, file_overrides, gi, ci,
                   best, best_overrides, symlinks, files, override_files, run,
                   fsStart, name, parsed>>

\* line 310: the loop over files is over
EndRegular ==
    /\ pc = "link_regular"
    /\ li > Len(files)
    /\ pc' = "link_overrides"
    /\ li' = 1
    /\ UNCHANGED <<env, tree, action, dry, caller, fs, wi, file_overrides, gi,
                   ci, best, best_overrides, symlinks, files, override_files,
                   run, fsStart, fsCall, lastCall, name, parsed>>

\* lines 310-321: one iteration of the loop over override_files
LinkOverride ==
    /\ pc = "link_overrides"
    /\ li <= Len(override_files)
    /\ LET file == override_files[li]
           overrides == parse_override_name(Last(file))
           real_path == get_relative_overrides_to_home(
                            Dot(Append(Front(file), overrides.name))).parts
           r == symlink_file(fs, tree, Dot(file), real_path)
       IN  IF file = NonePath
           THEN pc' = "AttributeError" /\ UNCHANGED <<fs, fsCall, lastCall>>
           ELSE IF overrides.status = "exit"
           THEN pc' = "exit_parse" /\ UNCHANGED <<fs, fsCall, lastCall>>
           ELSE IF ~dry
           THEN /\ fs' = r.fs
                /\ pc' = AfterCall(r.outcome, "link_overrides")
                /\ fsCall' = fs
                /\ lastCall' = [original |-> Dot(file), to |-> real_path]
           ELSE UNCHANGED <<fs, pc, fsCall, lastCall>>
    /\ li' = li + 1
    /\ UNCHANGED <<env, tree, action, dry, caller, wi, file_overrides, gi, ci,
                   best, best_overrides, symlinks, files, override_files, run,
                   fsStart, name, parsed>>

\* lines 323-324 and 268: the loop over override_files is over;
\* symlink_bin_and_self begins by listing bin/
EndOverrides ==
    /\ pc = "link_overrides"
    /\ li > Len(override_files)
    /\ pc' = IF action \in {"all", "regular"} /\ ~dry
             THEN IF BinExists(tree) THEN "link_bin" ELSE "FileNotFoundError"
             ELSE "done"
    /\ li' = 1
    /\ UNCHANGED <<env, tree, action, dry, caller, fs, wi, file_overrides, gi,
                   ci, best, best_overrides, symlinks, files, override_files,
                   run, fsStart, fsCall, lastCall, name, parsed>>

\* lines 268-272: one iteration of the loop over bin/
LinkBin ==
    /\ pc = "link_bin"
    /\ li <= Len(BinEntries(tree))
    /\ LET file == BinEntries(tree)[li].path
           real_path == <<N_local>> \o file
           f1 == IF ~ParentExists(fs, real_path) THEN Mkdir(fs, Front(real_path)) ELSE fs
           r == symlink_file(f1, tree, Dot(file), real_path)
       IN  IF ~ParentExists(fs, real_path) /\ BlockedParent(fs, Front(real_path))
           THEN pc' = "NotADirectoryError" /\ UNCHANGED <<fs, fsCall, lastCall>>
           ELSE /\ fs' = r.fs
                /\ pc' = AfterCall(r.outcome, "link_bin")
                /\ fsCall' = fs
                /\ lastCall' = [original |-> Dot(file), to |-> real_path]
    /\ li' = li + 1
    /\ UNCHANGED <<env, tree, action, dry, caller, wi, file_overrides, gi, ci,
                   best, best_overrides, symlinks, files, override_files, run,
                   fsStart, name, parsed>>

\* lines 275-277: the loop over bin/ is over; gitignore
LinkGitignore ==
    /\ pc = "link_bin"
    /\ li > Len(BinEntries(tree))
    /\ LET r == symlink_file(fs, tree, Dot(<<N_gitignore>>), <<N_dot_gitignore>>)
       IN  IF \E i \in 1..Len(tree) : tree[i].path = <<N_gitignore>>
           THEN /\ fs' = r.fs
                /\ pc' = AfterCall(r.outcome, "link_self")
                /\ fsCall' = fs
                /\ lastCall' = [original |-> Dot(<<N_gitignore>>), to |-> <<N_dot_gitignore>>]
           ELSE pc' = "link_self" /\ UNCHANGED <<fs, fsCall, lastCall>>
    /\ UNCHANGED <<env, tree, action, dry, caller, wi, file_overrides, gi, ci,
                   best, best_overrides, symlinks, files, override_files, li,
                   run, fsStart, name, parsed>>

\* line 278: the script itself; cli_apply returns
LinkSelf ==
    /\ pc = "link_self"
    /\ LET r == symlink_file(fs, tree, Dot(<<N_dotfiles_py>>), <<N_local, N_bin, N_dotfiles>>)
       IN  /\ fs' = r.fs
           /\ pc' = AfterCall(r.outcome, "done")
           /\ fsCall' = fs
           /\ lastCall' = [original |-> Dot(<<N_dotfiles_py>>), to |-> <<N_local, N_bin, N_dotfiles>>]
    /\ UNCHANGED <<env, tree, action, dry, caller, wi, file_overrides, gi, ci,
                   best, best_overrides, symlinks, files, override_files, li,
                   run, fsStart, name, parsed>>

\* the user runs the same apply command again, nothing else having changed
Rerun ==
    /\ pc = "done"
    /\ run < MaxRuns
    /\ run' = run + 1
    /\ pc' = "apply"
    /\ fsStart' = fs
    /\ fsCall' = fs
    /\ lastCall' = NoCall
    /\ wi' = 1
    /\ file_overrides' = << >>
    /\ gi' = 1
    /\ ci' = 1
    /\ best' = NonePath
    /\ best_overrides' = NoneOverride
    /\ symlinks' = << >>
    /\ files' = << >>
    /\ override_files' = << >>
    /\ li' = 1
    /\ UNCHANGED <<env, tree, action, dry, caller, fs, name, parsed>>

(***************************************************************************)
(* Inputs: environments, file names and directory walks.                   *)
(***************************************************************************)
Envs ==
    {[node |-> n, system |-> sr[1], release |-> sr[2]] :
        n \in {S_myhost, S_other},
        sr \in {<<S_Linux, R_wsl>>, <<S_Linux, R_plain>>, <<S_Darwin, R_plain>>}}

\* the file names cond.comp@n and default@n
CondName(c, comp, n) == c \o <<".">> \o comp \o <<"@">> \o n
DefaultName(n) == S_default \o <<"@">> \o n

File(parts) == [path |-> parts, kind |-> "file"]
Dir(parts) == [path |-> parts, kind |-> "dir"]
Link(parts) == [path |-> parts, kind |-> "link"]

\* the sequences without repetition of at most n elements of S: the orders in
\* which a directory walk can enumerate a set of entries
Walks(S, n) ==
    {w \in UNION {[1..k -> S] : k \in 0..n} :
        \A i, j \in 1..Len(w) : i # j => w[i] # w[j]}

ResolvePool ==
    {File(<<N_overrides, DefaultName(S_rc)>>),
     File(<<N_overrides, CondName(S_os, S_Linux, S_rc)>>),
     File(<<N_overrides, CondName(S_os, S_WSL, S_rc)>>),
     File(<<N_overrides, CondName(S_host, S_myhost, S_rc)>>),
     File(<<N_overrides, CondName(S_hostname, S_myhost, S_rc)>>),
     File(<<N_overrides, CondName(S_hostname, S_other, S_rc)>>),
     File(<<N_overrides, DefaultName(S_sh)>>),
     File(<<N_overrides, CondName(S_bogus, S_Linux, S_rc)>>)}

\* the variables of cli_apply and of the parser alone, while they are not in use
ApplyIdle ==
    /\ action = "overrides"
    /\ dry = TRUE
    /\ fs = << >>
    /\ files = << >>
    /\ run = 1
    /\ fsStart = << >>
    /\ fsCall = << >>
    /\ lastCall = NoCall

ParserIdle ==
    /\ name = None
    /\ parsed = NoneOverride

ResolverIdle ==
    /\ wi = 1
    /\ file_overrides = << >>
    /\ gi = 1
    /\ ci = 1
    /\ best = NonePath
    /\ best_overrides = NoneOverride
    /\ symlinks = << >>
    /\ override_files = << >>
    /\ li = 1

(***************************************************************************)
(* get_override_files called on its own (as cli_status does before it      *)
(* prints), for every environment and every walk of the pool.              *)
(***************************************************************************)
InitResolve ==
    /\ env \in Envs
    /\ tree \in Walks(ResolvePool, MaxOverrides)
    /\ caller = "direct"
    /\ pc = "group"
    /\ ResolverIdle
    /\ ApplyIdle
    /\ ParserIdle

NextResolve ==
    \/ GroupPath
    \/ StartResolve
    \/ ScanCandidate
    \/ AppendBest
    \/ ReturnOverrides

SpecResolve == InitResolve /\ [][NextResolve]_vars

(***************************************************************************)
(* cli_apply, run once or twice in a row on the same tree, for every walk  *)
(* of the pool and several states of HOME.                                 *)
(***************************************************************************)
S_x == <<"x">>
N_d == <<"d">>

ApplyPool ==
    {File(<<S_rc>>),
     Link(<<S_sh>>),
     File(<<N_README>>),
     File(<<N_gitignore>>),
     File(<<N_bin, S_x>>),
     File(<<N_overrides, DefaultName(S_rc)>>),
     File(<<N_overrides, CondName(S_os, S_Darwin, S_sh)>>),
     File(<<N_overrides, N_d, CondName(S_os, S_Linux, S_sh)>>),
     File(<<N_overrides, CondName(S_bogus, S_Linux, S_rc)>>),
     File(<<N_overrides, S_plainname>>)}

\* the directories of the walk w, which a walk lists before their contents;
\* withBin adds bin/ when w has nothing in it
DirsOf(w, withBin) ==
    LET ds == {SubSeq(w[i].path, 1, k) : i \in 1..Len(w), k \in 1..2}
        has(d) == \E i \in 1..Len(w) : Len(w[i].path) > Len(d) /\ SubSeq(w[i].path, 1, Len(d)) = d
    IN  (IF has(<<N_overrides>>) THEN <<Dir(<<N_overrides>>)>> ELSE << >>)
        \o (IF has(<<N_overrides, N_d>>) THEN <<Dir(<<N_overrides, N_d>>)>> ELSE << >>)
        \o (IF has(<<N_bin>>) \/ withBin THEN <<Dir(<<N_bin>>)>> ELSE << >>)

ApplyEnv == [node |-> S_myhost, system |-> S_Linux, release |-> R_plain]

\* HOME before the first run: empty, or with something at rc or at sh
HomeInits ==
    {<< >>,
     [p \in {<<S_rc>>} |-> FileEntry],
     [p \in {<<S_rc>>} |-> LinkEntry(Dot(<<S_rc>>))],
     [p \in {<<S_rc>>} |-> LinkEntry(Ext(<<S_rc>>))],
     [p \in {<<S_sh>>} |-> FileEntry],
     [p \in {<<N_d>>} |-> DirEntry]}

InitApply ==
    /\ env = ApplyEnv
    /\ \E w \in Walks(ApplyPool, MaxTree), withBin \in BOOLEAN :
          tree = DirsOf(w, withBin) \o w
    /\ \E a \in {<<"all", FALSE>>, <<"overrides", FALSE>>,
                 <<"regular", FALSE>>, <<"all", TRUE>>} :
          action = a[1] /\ dry = a[2]
    /\ caller = "apply"
    /\ pc = "apply"
    /\ fs \in HomeInits
    /\ fsStart = fs
    /\ fsCall = fs
    /\ lastCall = NoCall
    /\ files = << >>
    /\ run = 1
    /\ ResolverIdle
    /\ ParserIdle

NextApply ==
    \/ StartApply
    \/ GroupPath
    \/ StartResolve
    \/ ScanCandidate
    \/ AppendBest
    \/ ReturnOverrides
    \/ LinkRegular
    \/ EndRegular
    \/ LinkOverride
    \/ EndOverrides
    \/ LinkBin
    \/ LinkGitignore
    \/ LinkSelf
    \/ Rerun

SpecApply == InitApply /\ [][NextApply]_vars

(***************************************************************************)
(* parse_override_name called on its own, for names of the form            *)
(* cond.comp@n and a few others.                                           *)
(***************************************************************************)
MaxNameLen == 2
CompAlphabet == {"a", "Z", "1", "-"}
NameAlphabet == {"x", "@", "."}

\* the non-empty strings over the alphabet A of at most n characters
Strings(A, n) == UNION {[1..k -> A] : k \in 1..n}

ParseNames ==
    {CondName(c, comp, n) :
        c \in {S_os, S_host, S_hostname},
        comp \in Strings(CompAlphabet, MaxCompLen),
        n \in Strings(NameAlphabet, MaxNameLen)}
    \cup {DefaultName(n) : n \in Strings(NameAlphabet, MaxNameLen)}
    \cup {<<"D","E","F","a","u","l","t","@","x">>,
          CondName(<<"O","s">>, S_Linux, S_rc),
          CondName(S_bogus, S_Linux, S_rc),
          CondName(S_default, S_Linux, S_rc),
          S_plainname,
          S_default \o <<"@">>}

InitParse ==
    /\ name \in ParseNames
    /\ parsed = NoneOverride
    /\ pc = "parse"
    /\ env = ApplyEnv
    /\ tree = << >>
    /\ caller = "direct"
    /\ ResolverIdle
    /\ ApplyIdle

\* a call of parse_override_name(name)
ParseName ==
    /\ pc = "parse"
    /\ parsed' = parse_override_name(name)
    /\ pc' = IF parsed'.status = "exit" THEN "exit_parse" ELSE "parsed"
    /\ UNCHANGED <<env, tree, action, dry, caller, fs, wi, file_overrides, gi,
                   ci, best, best_overrides, symlinks, files, override_files,
                   li, run, fsStart, fsCall, lastCall, name>>

NextParse == ParseName

SpecParse == InitParse /\ [][NextParse]_vars

(***************************************************************************)
(* Properties of the resolver.                                             *)
(***************************************************************************)
P_default_rc == <<N_overrides, DefaultName(S_rc)>>
P_hostname_myhost_rc == <<N_overrides, CondName(S_hostname, S_myhost, S_rc)>>

\* the candidates of group g, and what the environment makes of them
Cands(g) == file_overrides[g].cands
IsDefault(c) == c.ov.cond = Condition.default
EvalTrue(c) == ~IsDefault(c) /\ CallCondition(c.ov.cond, c.ov.comp, env)
Groups == 1..Len(file_overrides)

\* the scan of group g has ended with a winner appended / with an exception
Resolved(g) == g <= Len(symlinks)
Crashed(g) == pc = "KeyError" /\ gi = g

\* C1: for the group of exactly default@N and hostname.H@N, in either walk
\* order, get_override_files returns normally, and returns hostname.H@N when
\* the host name is H and default@N when it is not.
C1_HostnameOrDefault ==
    (Len(tree) = 2 /\ {tree[i].path : i \in 1..Len(tree)} = {P_default_rc, P_hostname_myhost_rc})
        => /\ pc \notin {"KeyError", "exit_parse"}
           /\ pc = "returned" =>
                override_files = IF env.node = S_myhost
                                 THEN <<P_hostname_myhost_rc>>
                                 ELSE <<P_default_rc>>

\* C2: a group with an os candidate that evaluates true and a host/hostname
\* candidate that evaluates true gets a winner, in every scan order, and the
\* winner is a host/hostname candidate.
C2_HostBeatsOs ==
    \A g \in Groups :
        (/\ \E i \in 1..Len(Cands(g)) : EvalTrue(Cands(g)[i]) /\ Cands(g)[i].ov.cond = Condition.os
         /\ \E i \in 1..Len(Cands(g)) : EvalTrue(Cands(g)[i]) /\ Cands(g)[i].ov.cond = Condition.host)
        => /\ ~Crashed(g)
           /\ Resolved(g) =>
                \E i \in 1..Len(Cands(g)) :
                    /\ Cands(g)[i].path = symlinks[g]
                    /\ Cands(g)[i].ov.cond = Condition.host

\* a group with no default candidate and no conditional candidate that
\* evaluates true
Unmatched(g) ==
    \A i \in 1..Len(Cands(g)) : ~IsDefault(Cands(g)[i]) /\ ~EvalTrue(Cands(g)[i])

\* C3: the list returned by get_override_files has no entry, path or None,
\* for a group without a default candidate in which no candidate evaluates
\* true.
C3_NoEntryForUnmatched ==
    pc = "returned" =>
        /\ \A i \in 1..Len(override_files) : override_files[i] # NonePath
        /\ Len(override_files) = Cardinality({g \in Groups : ~Unmatched(g)})

\* a group with two candidates of the same rank that both evaluate true
Ambiguous(g) ==
    \E i, j \in 1..Len(Cands(g)) :
        /\ i # j
        /\ EvalTrue(Cands(g)[i])
        /\ EvalTrue(Cands(g)[j])
        /\ Cands(g)[i].ov.cond = Cands(g)[j].ov.cond

\* C4: get_override_files selects no file for a group in which two
\* candidates of the same rank match the environment; it exits with an error.
C4_AmbiguityIsFatal ==
    \A g \in Groups : Ambiguous(g) => ~Resolved(g) /\ pc # "returned"

\* C9: a group of exactly one default candidate and conditional candidates
\* that all evaluate false gets the default candidate as its winner, in every
\* scan order.
OnlyDefaultApplies(g) ==
    /\ Cardinality({i \in 1..Len(Cands(g)) : IsDefault(Cands(g)[i])}) = 1
    /\ \A i \in 1..Len(Cands(g)) : ~EvalTrue(Cands(g)[i])

C9_DefaultFallback ==
    \A g \in Groups :
        OnlyDefaultApplies(g)
        => /\ ~Crashed(g)
           /\ Resolved(g) =>
                \E i \in 1..Len(Cands(g)) :
                    IsDefault(Cands(g)[i]) /\ symlinks[g] = Cands(g)[i].path

\* a group of the case of C9 in which a false candidate was scanned before
\* the default one and another after it, resolved
C9_Witness ==
    \E g \in Groups :
        /\ OnlyDefaultApplies(g)
        /\ Resolved(g)
        /\ Len(Cands(g)) = 3
        /\ IsDefault(Cands(g)[2])

\* the positions in group g of the matching candidates of the highest rank
\* that matches
TopTrue(g) ==
    {i \in 1..Len(Cands(g)) :
        /\ EvalTrue(Cands(g)[i])
        /\ \A j \in 1..Len(Cands(g)) :
              EvalTrue(Cands(g)[j]) => Cands(g)[j].ov.cond <= Cands(g)[i].ov.cond}
Tie(g) == Cardinality(TopTrue(g)) >= 2
FirstOf(S) == CHOOSE i \in S : \A j \in S : i <= j
LastOf(S) == CHOOSE i \in S : \A j \in S : j <= i

C5_ParsesAnyComparison ==
    pc \in {"parsed", "exit_parse"} =>
        \A c \in {S_os, S_host, S_hostname},
           comp \in Strings(CompAlphabet, MaxCompLen),
           n \in Strings(NameAlphabet, MaxNameLen) :
            name = CondName(c, comp, n)
                => parsed = Override(ConditionByName(c), comp, n)

(***************************************************************************)
(* Properties of apply.                                                    *)
(***************************************************************************)
\* a file below overrides/ whose name parse_override_name rejects
BadOverrideName ==
    \E i \in 1..Len(OverridesGlob(tree)) :
        /\ OverridesGlob(tree)[i].kind # "dir"
        /\ parse_override_name(Last(OverridesGlob(tree)[i].path)).status = "exit"

\* C6: an apply run that resolves overrides, with a rejected name below
\* overrides/, never gets past the first loop of get_override_files: it ends
\* at the exit of the parser, HOME being as it was when the run started.
C6_ParseErrorBeforeMutation ==
    (caller = "apply" /\ action \in {"all", "overrides"} /\ BadOverrideName)
        => /\ pc \in {"apply", "group", "exit_parse"}
           /\ fs = fsStart

\* apply all, not dry, has exited on a rejected name while a regular file
\* whose target is missing was listed in files
C6_Witness ==
    /\ pc = "exit_parse"
    /\ action = "all"
    /\ ~dry
    /\ BadOverrideName
    /\ Len(files) >= 1
    /\ ~Exists(fs, get_relative_to_home(Dot(files[1])).parts)

\* the target of the call c exists in f and does not resolve to the source
Conflict(f, c) == Exists(f, c.to) /\ Resolve(f, tree, c.to) # c.original

\* C7: once symlink_file has been called on a target that exists and does
\* not resolve to the source, the process is at exit(1) and HOME is as it was
\* when the iteration that made the call began.
C7_ConflictAborts ==
    (lastCall # NoCall /\ Conflict(fsCall, lastCall))
        => pc = "exit_conflict" /\ fs = fsCall

\* apply has exited on a regular file at HOME/rc while entries were pending
C7_Witness ==
    /\ pc = "exit_conflict"
    /\ lastCall = [original |-> Dot(<<S_rc>>), to |-> <<S_rc>>]
    /\ fs[<<S_rc>>] = FileEntry
    /\ \/ li <= Len(files)
       \/ Len(override_files) >= 1

\* C8: a second run after a first run that completed changes nothing in
\* HOME and does not abort.
C8_SecondRunNoop ==
    run >= 2 =>
        /\ fs = fsStart
        /\ pc \notin {"exit_conflict", "exit_parse", "KeyError", "AttributeError",
                      "NotADirectoryError", "FileNotFoundError"}

\* the target paths of an apply run, once files and override_files are
\* known: those of the regular files, of the resolved overrides, of the
\* entries of bin/, of gitignore and of the script itself
RegularTargets ==
    [i \in 1..Len(files) |-> get_relative_to_home(Dot(files[i])).parts]
OverrideTargets ==
    LET picked == SelectSeq(override_files, LAMBDA f : f # NonePath)
    IN  [i \in 1..Len(picked) |->
            get_relative_overrides_to_home(
                Dot(Append(Front(picked[i]),
                           parse_override_name(Last(picked[i])).name))).parts]
BinTargets ==
    [i \in 1..Len(BinEntries(tree)) |-> <<N_local>> \o BinEntries(tree)[i].path]
SelfTargets ==
    (IF \E i \in 1..Len(tree) : tree[i].path = <<N_gitignore>>
     THEN <<<<N_dot_gitignore>>>> ELSE << >>)
    \o <<<<N_local, N_bin, N_dotfiles>>>>
AllTargets == RegularTargets \o OverrideTargets \o BinTargets \o SelfTargets

\* C11: in an apply all run no two sources have the same target path, and
\* the run never exits on a conflict at a path that was absent when the run
\* started, that is, at a symlink the run itself created.
C11_DistinctTargets ==
    (caller = "apply" /\ action = "all")
        => /\ pc = "link_regular" =>
                \A i, j \in 1..Len(AllTargets) :
                    i # j => AllTargets[i] # AllTargets[j]
           /\ pc = "exit_conflict" => Exists(fsStart, lastCall.to)

====
